---- MODULE Spec2Model ----
(***************************************************************************)
(* The schedule normalization pipeline of data.py (process_dataframe and   *)
(* its four stages) as a state machine.  A table is a sequence of columns; *)
(* every text (header or cell) is a sequence of one-character strings, so  *)
(* that lower(), replace(), strip() and substring tests are computed.      *)
(***************************************************************************)
EXTENDS Integers, Sequences, FiniteSets, TLC

\* process_dataframe: the caller's table, the table the local name df is
\* bound to, the WarningLog, the stage that runs next, the value of
\* datetime.now(TZ), whether df is still the caller's object, the
\* date_mapping of parse_dates, and the number of the call (1, or 2 for a
\* call on the schedule the first call returned)
VARIABLES input, df, warnings, pc, today, same_object, date_mapping, call

\* the dashboard: the worksheet's content, the connection type, the position
\* of the write_to_google_sheets call, the table passed to it, the
\* worksheet's content when it was called, and who called it
VARIABLES sheet, source_type, wpc, written, before, caller

pipevars == <<input, df, warnings, pc, today, same_object, date_mapping, call>>
appvars  == <<sheet, source_type, wpc, written, before, caller>>
vars     == <<pipevars, appvars>>

\* ------------------------------------------------------------------ bounds
\* Largest number of rows of an input table.
MaxRows == 2
\* Largest number of columns of an input table of the header-layout family.
MaxCols == 2
\* Largest number of rows of an input table of the header-layout family.
MaxLayoutRows == 1
\* Largest number of jobs of a worksheet: Add Job is not used beyond it.
MaxJobs == 2

\* ------------------------------------------------------------ text helpers
Range(s) == {s[i] : i \in 1..Len(s)}

SetMin(S) == CHOOSE x \in S : \A y \in S : x <= y
SetMax(S) == CHOOSE x \in S : \A y \in S : x >= y

UpperLetters == <<"A","B","C","D","E","F","G","H","I","J","K","L","M","N","O","P","Q","R","S","T","U","V","W","X","Y","Z">>
LowerLetters == <<"a","b","c","d","e","f","g","h","i","j","k","l","m","n","o","p","q","r","s","t","u","v","w","x","y","z">>

\* str.lower() on one character.
LowerChar(c) ==
    IF \E i \in 1..26 : UpperLetters[i] = c
    THEN LowerLetters[CHOOSE i \in 1..26 : UpperLetters[i] = c]
    ELSE c

\* str.lower()
Lower(s) == [i \in 1..Len(s) |-> LowerChar(s[i])]

\* str.upper() on one character and on a text (for headers in capitals).
UpperChar(c) ==
    IF \E i \in 1..26 : LowerLetters[i] = c
    THEN UpperLetters[CHOOSE i \in 1..26 : LowerLetters[i] = c]
    ELSE c

Upper(s) == [i \in 1..Len(s) |-> UpperChar(s[i])]

\* str.replace(c, '') for a one-character c.
Remove(s, c) == SelectSeq(s, LAMBDA x : x # c)

\* Python's `sub in s` on strings.
Contains(sub, s) ==
    \E i \in 0..(Len(s) - Len(sub)) : SubSeq(s, i + 1, i + Len(sub)) = sub

\* str.strip(): leading and trailing whitespace removed.
Strip(s) ==
    LET keep == {i \in 1..Len(s) : s[i] \notin {" ", "\t"}}
    IN  IF keep = {} THEN <<>> ELSE SubSeq(s, SetMin(keep), SetMax(keep))

DigitChars == <<"0","1","2","3","4","5","6","7","8","9">>

IsDigit(c) == \E i \in 1..10 : DigitChars[i] = c
DigitVal(c) == (CHOOSE i \in 1..10 : DigitChars[i] = c) - 1

\* str(i) for a small non-negative integer (a RangeIndex label).
IntToStr(i) ==
    IF i < 10 THEN <<DigitChars[i + 1]>>
    ELSE <<DigitChars[(i \div 10) + 1], DigitChars[(i % 10) + 1]>>

\* ------------------------------------------------------------------- cells
\* A cell is a record of one shape: k is its kind, s its text, t its number
\* (an integer, or minutes since 1970-01-01 00:00 for a datetime: wall-clock
\* minutes for a tz-naive value, UTC minutes for a tz-aware one).
Str(s)   == [k |-> "str",   s |-> s,    t |-> 0]
Null     == [k |-> "null",  s |-> <<>>, t |-> 0]
IntV(n)  == [k |-> "int",   s |-> <<>>, t |-> n]
NaT      == [k |-> "nat",   s |-> <<>>, t |-> 0]
Naive(t) == [k |-> "naive", s |-> <<>>, t |-> t]
Aware(t) == [k |-> "aware", s |-> <<>>, t |-> t]

\* ------------------------------------------------------------ column names
N_JobID               == <<"J","o","b","I","D">>
N_JobName             == <<"J","o","b","N","a","m","e">>
N_Branch              == <<"B","r","a","n","c","h">>
N_CustomerName        == <<"C","u","s","t","o","m","e","r","N","a","m","e">>
N_Priority            == <<"P","r","i","o","r","i","t","y">>
N_Status              == <<"S","t","a","t","u","s">>
N_Quantity            == <<"Q","u","a","n","t","i","t","y">>
N_StartDate           == <<"S","t","a","r","t","D","a","t","e">>
N_CustomerRequestDate == <<"C","u","s","t","o","m","e","r","R","e","q","u","e","s","t","D","a","t","e">>
N_ShipDate            == <<"S","h","i","p","D","a","t","e">>
N_DueDate             == <<"D","u","e","D","a","t","e">>
N_Notes               == <<"N","o","t","e","s">>
N_DaysLate            == <<"D","a","y","s","L","a","t","e">>
N_DurationDays        == <<"D","u","r","a","t","i","o","n","D","a","y","s">>

\* ------------------------------------------------------------------ tables
\* A column: its name, its cells (one per row), its dtype ("object",
\* "datetime64" tz-naive, "datetime64tz" tz-aware) and src, the position of
\* the input column it was made from (0 for a column the pipeline created).
Col(name, cells, dtype, src) ==
    [name |-> name, cells |-> cells, dtype |-> dtype, src |-> src]

\* df.columns
Names(d) == {d.cols[i].name : i \in 1..Len(d.cols)}

\* positions of the columns called `name` (renames can make several)
Positions(d, name) == {i \in 1..Len(d.cols) : d.cols[i].name = name}

\* the column called `name`, when there is exactly one
TheCol(d, name) == d.cols[CHOOSE i \in 1..Len(d.cols) : d.cols[i].name = name]

\* IsEmpty looking at the columns only
IsEmpty_NoColumns(d) == Len(d.cols) = 0

\* df.empty: no rows or no columns
IsEmpty(d) == d.n = 0 \/ Len(d.cols) = 0

\* df[name] = value for a scalar value: replaces the column(s) called name,
\* or appends a new column
SetColumn(d, name, cells, dtype) ==
    IF name \in Names(d)
    THEN [d EXCEPT !.cols = [i \in 1..Len(d.cols) |->
             IF d.cols[i].name = name
             THEN [d.cols[i] EXCEPT !.cells = cells, !.dtype = dtype]
             ELSE d.cols[i]]]
    ELSE [d EXCEPT !.cols = Append(d.cols, Col(name, cells, dtype, 0))]

\* rename changing the table it is called on and returning that table
rename_in_place == FALSE

\* DataFrame.rename(columns=...) without inplace=True returns a new table
\* and leaves the one it was called on as it was
rename_returns_new == TRUE

\* df.rename(columns={old: new}): every column called old is renamed
RenameCol(d, old, new) ==
    [d EXCEPT !.cols = [i \in 1..Len(d.cols) |->
        IF d.cols[i].name = old THEN [d.cols[i] EXCEPT !.name = new]
        ELSE d.cols[i]]]

\* ----------------------------------------------------- standardize_columns
column_mapping ==
    { <<<<"m","h","s","j","o","b","#">>, N_JobID>>, <<<<"m","h","s","j","o","b">>, N_JobID>>,
      <<<<"m","h","s"," ","j","o","b","#">>, N_JobID>>, <<<<"m","h","s"," ","j","o","b"," ","#">>, N_JobID>>,
      <<<<"j","o","b","i","d">>, N_JobID>>, <<<<"j","o","b","_","i","d">>, N_JobID>>,
      <<<<"i","d">>, N_JobID>>, <<<<"j","o","b">>, N_JobID>>,
      <<<<"j","o","b","#">>, N_JobID>>, <<<<"j","o","b"," ","#">>, N_JobID>>,
      <<<<"j","o","b","n","a","m","e">>, N_JobName>>, <<<<"j","o","b","_","n","a","m","e">>, N_JobName>>,
      <<<<"n","a","m","e">>, N_JobName>>,
      <<<<"b","r","a","n","c","h">>, N_Branch>>, <<<<"w","o","r","k","c","e","n","t","e","r">>, N_Branch>>,
      <<<<"w","o","r","k","_","c","e","n","t","e","r">>, N_Branch>>, <<<<"r","e","s","o","u","r","c","e">>, N_Branch>>,
      <<<<"m","a","c","h","i","n","e">>, N_Branch>>,
      <<<<"c","u","s","t","o","m","e","r","n","a","m","e">>, N_CustomerName>>,
      <<<<"c","u","s","t","o","m","e","r","_","n","a","m","e">>, N_CustomerName>>,
      <<<<"o","w","n","e","r">>, N_CustomerName>>, <<<<"a","s","s","i","g","n","e","e">>, N_CustomerName>>,
      <<<<"a","s","s","i","g","n","e","d","_","t","o">>, N_CustomerName>>,
      <<<<"c","u","s","t","o","m","e","r","r","e","q","u","e","s","t","d","a","t","e">>, N_CustomerRequestDate>>,
      <<<<"c","u","s","t","o","m","e","r","_","r","e","q","u","e","s","t","_","d","a","t","e">>, N_CustomerRequestDate>>,
      <<<<"e","n","d","d","a","t","e">>, N_CustomerRequestDate>>,
      <<<<"e","n","d","_","d","a","t","e">>, N_CustomerRequestDate>>,
      <<<<"s","h","i","p","d","a","t","e">>, N_ShipDate>>, <<<<"s","h","i","p","_","d","a","t","e">>, N_ShipDate>>,
      <<<<"p","r","i","o","r","i","t","y">>, N_Priority>>,
      <<<<"q","u","a","n","t","i","t","y">>, N_Quantity>>, <<<<"q","t","y">>, N_Quantity>>,
      <<<<"n","o","t","e","s">>, N_Notes>>, <<<<"c","o","m","m","e","n","t","s">>, N_Notes>>,
      <<<<"d","e","s","c","r","i","p","t","i","o","n">>, N_Notes>> }

\* col.lower().replace(' ', '').replace('_', '').replace('#', '')
AliasKey(col) == Remove(Remove(Remove(Lower(col), " "), "_"), "#")

\* the name a column has after the alias pass
AliasName(col) ==
    LET key == AliasKey(col)
        hit == {p \in column_mapping : p[1] = key}
    IN  IF hit # {} THEN (CHOOSE p \in hit : TRUE)[2] ELSE col

\* the default of each required column, in the order of required_cols;
\* JobID's default is df.index.astype(str)
required_cols ==
    << [name |-> N_JobID,        byIndex |-> TRUE,  val |-> Null],
       [name |-> N_JobName,      byIndex |-> FALSE, val |-> Str(<<>>)],
       [name |-> N_Branch,       byIndex |-> FALSE, val |-> Str(<<"U","n","a","s","s","i","g","n","e","d">>)],
       [name |-> N_CustomerName, byIndex |-> FALSE, val |-> Str(<<"U","n","a","s","s","i","g","n","e","d">>)],
       [name |-> N_Priority,     byIndex |-> FALSE, val |-> Str(<<"M","e","d","i","u","m">>)],
       [name |-> N_Status,       byIndex |-> FALSE, val |-> Str(<<"P","l","a","n","n","e","d">>)],
       [name |-> N_Quantity,     byIndex |-> FALSE, val |-> IntV(1)],
       [name |-> N_ShipDate,     byIndex |-> FALSE, val |-> Str(<<>>)],
       [name |-> N_Notes,        byIndex |-> FALSE, val |-> Str(<<>>)] >>

\* DefaultCells numbering the rows from 1
DefaultCells_OneBased(r, n) ==
    [row \in 1..n |-> IF r.byIndex THEN Str(IntToStr(row)) ELSE r.val]

\* the cells of an injected default column
DefaultCells(r, n) ==
    [row \in 1..n |-> IF r.byIndex THEN Str(IntToStr(row - 1)) ELSE r.val]

\* Injected with the Notes default forgotten
Injected_SkipsNotes(d) ==
    SelectSeq(required_cols,
              LAMBDA r : r.name \notin Names(d) /\ r.name # N_Notes)

\* the required columns that are injected into d, in order
Injected(d) == SelectSeq(required_cols, LAMBDA r : r.name \notin Names(d))

standardize_columns(d) ==
    LET renamed == [d EXCEPT !.cols = [i \in 1..Len(d.cols) |->
                        [d.cols[i] EXCEPT !.name = AliasName(@)]]]
        inj == Injected(renamed)
    IN  [renamed EXCEPT !.cols = renamed.cols \o
            [j \in 1..Len(inj) |->
                Col(inj[j].name, DefaultCells(inj[j], renamed.n), "object", 0)]]

\* --------------------------------------------------------------- calendar
IsLeap(y) == (y % 4 = 0 /\ y % 100 # 0) \/ y % 400 = 0

DaysInMonth(y, m) ==
    IF m = 2 THEN (IF IsLeap(y) THEN 28 + 1 ELSE 28)
    ELSE IF m \in {4, 6, 9, 11} THEN 30 ELSE 30 + 1

\* days from 1970-01-01 to the civil date y-m-d (proleptic Gregorian)
DaysFromCivil(y, m, d) ==
    LET yy  == IF m <= 2 THEN y - 1 ELSE y
        era == yy \div 400
        yoe == yy - era * 400
        mp  == IF m > 2 THEN m - 3 ELSE m + 9
        doy == (153 * mp + 2) \div 5 + d - 1
        doe == yoe * 365 + yoe \div 4 - yoe \div 100 + doy
    IN  era * 146097 + doe - 719468

MinutesPerDay == 24 * 60

\* wall-clock minutes since 1970-01-01 00:00 of y-m-d hh:mi
CivilMinutes(y, m, d, hh, mi) ==
    DaysFromCivil(y, m, d) * MinutesPerDay + hh * 60 + mi

\* the calendar year a wall-clock minute falls in
YearOf(t) ==
    LET days == t \div MinutesPerDay
    IN  CHOOSE y \in (1970 + days \div 366)..(1970 + days \div 365) :
            /\ DaysFromCivil(y, 1, 1) <= days
            /\ days < DaysFromCivil(y + 1, 1, 1)

\* 0 = Sunday ... 6 = Saturday (1970-01-01 was a Thursday)
Weekday(days) == (days + 4) % 7

\* ------------------------------------------- TZ = America/New_York (pytz)
\* UTC is local time plus this many minutes, in standard and in daylight time
UtcOffsetStd == 300
UtcOffsetDst == 240

\* wall-clock minute at which daylight time starts in year y: 02:00 of the
\* second Sunday of March; the hour from there does not exist
GapStart(y) ==
    LET d == CHOOSE d \in 8..14 : Weekday(DaysFromCivil(y, 3, d)) = 0
    IN  CivilMinutes(y, 3, d, 2, 0)

\* wall-clock minute at which the repeated hour starts in year y: 01:00 of
\* the first Sunday of November; the hour from there occurs twice
FoldStart(y) ==
    LET d == CHOOSE d \in 1..7 : Weekday(DaysFromCivil(y, 11, d)) = 0
    IN  CivilMinutes(y, 11, d, 1, 0)

IsAmbiguous(t)   == FoldStart(YearOf(t)) <= t /\ t < FoldStart(YearOf(t)) + 60

\* the UTC minute of wall-clock minute t; dst says which of the two
\* occurrences an ambiguous t is; a nonexistent t is shifted forward to the
\* first minute that exists (nonexistent='shift_forward')
LocalToUtc(t, dst) ==
    LET y == YearOf(t)
    IN  IF t < GapStart(y) THEN t + UtcOffsetStd
        ELSE IF t < GapStart(y) + 60 THEN GapStart(y) + 60 + UtcOffsetDst
        ELSE IF t < FoldStart(y) THEN t + UtcOffsetDst
        ELSE IF t < FoldStart(y) + 60
             THEN (IF dst THEN t + UtcOffsetDst ELSE t + UtcOffsetStd)
        ELSE t + UtcOffsetStd

\* the wall-clock minute in America/New_York of UTC minute u: daylight time
\* runs from 02:00 standard time to 02:00 daylight time
UtcToLocal(u) ==
    LET y == YearOf(u - UtcOffsetStd)
    IN  IF /\ GapStart(y) + UtcOffsetStd <= u
           /\ u < FoldStart(y) + 60 + UtcOffsetDst
        THEN u - UtcOffsetDst
        ELSE u - UtcOffsetStd

\* the civil date <<y, m, d>> of day number z (days since 1970-01-01)
CivilFromDays(z) ==
    LET zz  == z + 719468
        era == zz \div 146097
        doe == zz - era * 146097
        yoe == (doe - doe \div 1460 + doe \div 36524 - doe \div 146096) \div 365
        doy == doe - (365 * yoe + yoe \div 4 - yoe \div 100)
        mp  == (5 * doy + 2) \div 153
        d   == doy - (153 * mp + 2) \div 5 + 1
        m   == IF mp < 10 THEN mp + 3 ELSE mp - 9
        y   == yoe + era * 400
    IN  <<IF m <= 2 THEN y + 1 ELSE y, m, d>>

\* %m, %d: two digits
Digits2(n) == <<DigitChars[(n \div 10) + 1], DigitChars[(n % 10) + 1]>>

\* strftime('%Y-%m-%d') of wall-clock minute t
FormatDate(t) ==
    LET c == CivilFromDays(t \div MinutesPerDay)
    IN  Digits2(c[1] \div 100) \o Digits2(c[1] % 100) \o <<"-">>
            \o Digits2(c[2]) \o <<"-">> \o Digits2(c[3])

\* Series.dt.strftime('%Y-%m-%d') on one cell: the date in the column's
\* zone, missing for NaT
strftime(c) ==
    CASE c.k = "aware" -> Str(FormatDate(UtcToLocal(c.t)))
      [] c.k = "naive" -> Str(FormatDate(c.t))
      [] OTHER         -> Null

\* ------------------------------------------------------------ to_datetime
Num2(s, i) == DigitVal(s[i]) * 10 + DigitVal(s[i + 1])
Num4(s, i) == Num2(s, i) * 100 + Num2(s, i + 2)

\* s[i..j] are all digits
AllDigits(s, i, j) == \A k \in i..j : IsDigit(s[k])

\* text of the form YYYY-MM-DD naming a date that exists
IsDateText(s) ==
    /\ Len(s) = 10
    /\ AllDigits(s, 1, 4) /\ s[5] = "-"
    /\ AllDigits(s, 6, 7) /\ s[8] = "-"
    /\ AllDigits(s, 9, 10)
    /\ Num2(s, 6) \in 1..12
    /\ Num2(s, 9) >= 1
    /\ Num2(s, 9) <= DaysInMonth(Num4(s, 1), Num2(s, 6))

\* text of the form YYYY-MM-DD HH:MM
IsDateTimeText(s) ==
    /\ Len(s) = 16
    /\ IsDateText(SubSeq(s, 1, 10))
    /\ s[11] = " "
    /\ AllDigits(s, 12, 13) /\ s[14] = ":"
    /\ AllDigits(s, 15, 16)
    /\ Num2(s, 12) <= 23
    /\ Num2(s, 15) <= 59

\* to_datetime coercing a value that is already a timestamp to NaT
to_datetime_CoercesTimestamps(c) ==
    IF c.k = "str" /\ IsDateText(c.s)
    THEN Naive(CivilMinutes(Num4(c.s, 1), Num2(c.s, 6), Num2(c.s, 9), 0, 0))
    ELSE NaT

\* pd.to_datetime(value, errors='coerce') on one cell: a timestamp, or NaT
\* for a missing value and for text that is no date
to_datetime(c) ==
    CASE c.k = "str" ->
            IF IsDateText(c.s)
            THEN Naive(CivilMinutes(Num4(c.s, 1), Num2(c.s, 6), Num2(c.s, 9), 0, 0))
            ELSE IF IsDateTimeText(c.s)
            THEN Naive(CivilMinutes(Num4(c.s, 1), Num2(c.s, 6), Num2(c.s, 9),
                                    Num2(c.s, 12), Num2(c.s, 15)))
            ELSE NaT
      [] c.k \in {"null", "nat"} -> NaT
      [] c.k \in {"naive", "aware"} -> c

\* ------------------------------------------------------------ tz_localize
\* positions of a tz-naive series whose wall-clock time occurs twice
AmbiguousIdx(cells) ==
    {i \in 1..Len(cells) : cells[i].k = "naive" /\ IsAmbiguous(cells[i].t)}

\* ambiguous='infer' works on each run lo..hi of consecutive ambiguous
\* positions
RunLo(cells, i) ==
    SetMin({j \in 1..i : \A k \in j..i : k \in AmbiguousIdx(cells)})
RunHi(cells, i) ==
    SetMax({j \in i..Len(cells) : \A k \in i..j : k \in AmbiguousIdx(cells)})

\* positions in the run of i after which the time does not advance: the
\* switch from the first occurrence of the hour to the second
Switches(cells, i) ==
    {k \in RunLo(cells, i)..(RunHi(cells, i) - 1) : cells[k + 1].t - cells[k].t <= 0}

\* ambiguous='infer' raises AmbiguousTimeError unless every run of ambiguous
\* times repeats a time exactly once
InferRaises(cells) ==
    \E i \in AmbiguousIdx(cells) : Cardinality(Switches(cells, i)) # 1

\* Series.dt.tz_localize(TZ, ambiguous='infer', nonexistent='shift_forward')
\* raises on a series that is already tz-aware, and when infer fails
LocalizeRaises(col) ==
    \/ col.dtype = "datetime64tz"
    \/ InferRaises(col.cells)

LocalizeCell(cells, i) ==
    IF cells[i].k # "naive" THEN cells[i]
    ELSE IF i \in AmbiguousIdx(cells)
    THEN Aware(LocalToUtc(cells[i].t,
                   i <= (CHOOSE k \in Switches(cells, i) : TRUE)))
    ELSE Aware(LocalToUtc(cells[i].t, FALSE))

tz_localize(col) ==
    [col EXCEPT !.cells = [i \in 1..Len(col.cells) |-> LocalizeCell(col.cells, i)],
                !.dtype = "datetime64tz"]

\* ----------------------------------------------------- infer_date_columns
patterns ==
    << [role |-> N_StartDate,
        keywords |-> {<<"s","t","a","r","t">>, <<"s","t","a","r","t","d","a","t","e">>, <<"s","t","a","r","t","_","d","a","t","e">>, <<"b","e","g","i","n">>,
                      <<"b","e","g","i","n","d","a","t","e">>}],
       [role |-> N_CustomerRequestDate,
        keywords |-> {<<"c","u","s","t","o","m","e","r","r","e","q","u","e","s","t">>, <<"c","u","s","t","o","m","e","r","_","r","e","q","u","e","s","t">>, <<"e","n","d">>,
                      <<"e","n","d","d","a","t","e">>, <<"e","n","d","_","d","a","t","e">>, <<"f","i","n","i","s","h">>, <<"f","i","n","i","s","h","d","a","t","e">>}],
       [role |-> N_ShipDate,
        keywords |-> {<<"s","h","i","p">>, <<"s","h","i","p","d","a","t","e">>, <<"s","h","i","p","_","d","a","t","e">>, <<"s","h","i","p","p","i","n","g">>}],
       [role |-> N_DueDate,
        keywords |-> {<<"d","u","e">>, <<"d","u","e","d","a","t","e">>, <<"d","u","e","_","d","a","t","e">>, <<"d","e","a","d","l","i","n","e">>}] >>

\* col.lower().replace(' ', '').replace('#', '')
DateKey(col) == Remove(Remove(Lower(col), " "), "#")

\* the patterns one of whose keywords is a substring of the normalized header
Matching(col) ==
    LET key == DateKey(col)
    IN  {p \in 1..Len(patterns) :
            \E kw \in patterns[p].keywords : Contains(kw, key)}

\* RoleIndex letting the last matching pattern win
RoleIndex_LastRole(col) ==
    LET m == Matching(col) IN IF m = {} THEN 0 ELSE SetMax(m)

\* the first pattern that matches the header, 0 when none does (the break)
RoleIndex(col) ==
    LET m == Matching(col) IN IF m = {} THEN 0 ELSE SetMin(m)

\* date_mapping: for each role some header was assigned to, the header of
\* the last such column (a later assignment overwrites an earlier one)
infer_date_columns(d) ==
    LET roles == <<>> \o [i \in 1..Len(d.cols) |-> RoleIndex(d.cols[i].name)]
    IN  [p \in {roles[i] : i \in 1..Len(roles)} \ {0} |->
            d.cols[SetMax({i \in 1..Len(roles) : roles[i] = p})].name]

\* ------------------------------------------------------------ parse_dates
\* warnings are records: kind "failed" is "Failed to parse {n} dates in
\* {field}", kind "error" is "Error parsing {field}: {e}"
FailedWarning(field, n) == [kind |-> "failed", field |-> field, n |-> n]
ErrorWarning(field)     == [kind |-> "error",  field |-> field, n |-> 0]

\* df.rename(columns={v: k for k, v in date_mapping.items()})
RenameDates(d) ==
    LET dm == infer_date_columns(d)
        to == [i \in 1..Len(d.cols) |->
                  IF \E p \in DOMAIN dm : dm[p] = d.cols[i].name
                  THEN patterns[CHOOSE p \in DOMAIN dm : dm[p] = d.cols[i].name].role
                  ELSE d.cols[i].name]
    IN  [d EXCEPT !.cols = [i \in 1..Len(d.cols) |->
            [d.cols[i] EXCEPT !.name = to[i]]]]

date_cols == <<N_StartDate, N_CustomerRequestDate, N_ShipDate, N_DueDate>>

ReplaceCol(d, name, col) ==
    [d EXCEPT !.cols = [i \in 1..Len(d.cols) |->
        IF d.cols[i].name = name THEN col ELSE d.cols[i]]]

\* NullCount counting every row instead of the missing ones
NullCount_CountsRows(cells) == Len(cells)

\* null_count = df[date_col].isna().sum()
NullCount(cells) == Cardinality({i \in 1..Len(cells) : cells[i].k = "nat"})

\* one pass of the loop body for date_col on st = [df, warnings]
ParseColumn(st, date_col) ==
    IF date_col \notin Names(st.df) THEN st
    ELSE IF Cardinality(Positions(st.df, date_col)) > 1
    THEN \* df[date_col] is a DataFrame: to_datetime raises, nothing is assigned
         [st EXCEPT !.warnings = Append(@, ErrorWarning(date_col))]
    ELSE
      LET old    == TheCol(st.df, date_col)
          cells  == [i \in 1..Len(old.cells) |-> to_datetime(old.cells[i])]
          aware  == \/ old.dtype = "datetime64tz"
                    \/ \E i \in 1..Len(cells) : cells[i].k = "aware"
          parsed == [old EXCEPT !.cells = cells,
                         !.dtype = IF aware THEN "datetime64tz" ELSE "datetime64"]
          w1     == IF NullCount(cells) > 0
                    THEN Append(st.warnings, FailedWarning(date_col, NullCount(cells)))
                    ELSE st.warnings
      IN  IF LocalizeRaises(parsed)
          THEN [df |-> ReplaceCol(st.df, date_col, parsed),
                warnings |-> Append(w1, ErrorWarning(date_col))]
          ELSE [df |-> ReplaceCol(st.df, date_col, tz_localize(parsed)),
                warnings |-> w1]

parse_dates(d) ==
    LET s0 == [df |-> RenameDates(d), warnings |-> <<>>]
        s1 == ParseColumn(s0, date_cols[1])
        s2 == ParseColumn(s1, date_cols[2])
        s3 == ParseColumn(s2, date_cols[3])
    IN  ParseColumn(s3, date_cols[3 + 1])

\* ------------------------------------------------------- normalize_status
status_mapping ==
    { <<<<"p","l","a","n","n","e","d">>, <<"P","l","a","n","n","e","d">>>>,
      <<<<"i","n"," ","p","r","o","g","r","e","s","s">>, <<"I","n","-","P","r","o","g","r","e","s","s">>>>,
      <<<<"i","n","-","p","r","o","g","r","e","s","s">>, <<"I","n","-","P","r","o","g","r","e","s","s">>>>,
      <<<<"i","n","p","r","o","g","r","e","s","s">>, <<"I","n","-","P","r","o","g","r","e","s","s">>>>,
      <<<<"c","o","m","p","l","e","t","e">>, <<"C","o","m","p","l","e","t","e">>>>,
      <<<<"c","o","m","p","l","e","t","e","d">>, <<"C","o","m","p","l","e","t","e">>>>,
      <<<<"d","o","n","e">>, <<"C","o","m","p","l","e","t","e">>>>,
      <<<<"h","o","l","d">>, <<"H","o","l","d">>>>,
      <<<<"o","n"," ","h","o","l","d">>, <<"H","o","l","d">>>>,
      <<<<"p","a","u","s","e","d">>, <<"H","o","l","d">>>>,
      <<<<"p","e","n","d","i","n","g">>, <<"P","l","a","n","n","e","d">>>> }

\* astype(str) on one cell
AsStr(c) ==
    CASE c.k = "str"  -> c.s
      [] c.k = "null" -> <<"n","a","n">>
      [] c.k = "int"  -> IntToStr(c.t)
      [] c.k = "nat"  -> <<"N","a","T">>

\* MapStatus without the fillna: an unmapped text stays as it is
MapStatus_NoFallback(s) ==
    LET hit == {p \in status_mapping : p[1] = s}
    IN  IF hit # {} THEN (CHOOSE p \in hit : TRUE)[2] ELSE s

\* .map(status_mapping).fillna('Planned') on one normalized text
MapStatus(s) ==
    LET hit == {p \in status_mapping : p[1] = s}
    IN  IF hit # {} THEN (CHOOSE p \in hit : TRUE)[2] ELSE <<"P","l","a","n","n","e","d">>

\* NormalizeCell with the str.strip() step forgotten
NormalizeCell_NoStrip(c) ==
    LET text == Lower(AsStr(c)) IN Str(MapStatus(text))

\* astype(str).str.strip().str.lower(), then map and fillna, on one cell
NormalizeCell(c) ==
    LET text == Lower(Strip(AsStr(c))) IN Str(MapStatus(text))

\* [col for col in df.columns if 'status' in col.lower()]
status_cols(d) ==
    SelectSeq([i \in 1..Len(d.cols) |-> d.cols[i].name],
              LAMBDA name : Contains(<<"s","t","a","t","u","s">>, Lower(name)))

\* lines 285-303: the values of the Status column are normalized
NormalizeValues(d) ==
    [d EXCEPT !.cols = [i \in 1..Len(d.cols) |->
        IF d.cols[i].name = N_Status
        THEN [d.cols[i] EXCEPT !.cells =
                 [r \in 1..Len(d.cols[i].cells) |-> NormalizeCell(d.cols[i].cells[r])]]
        ELSE d.cols[i]]]

normalize_status(d) ==
    IF N_Status \notin Names(d)
    THEN IF status_cols(d) # <<>>
         THEN NormalizeValues(RenameCol(d, status_cols(d)[1], N_Status))
         ELSE SetColumn(d, N_Status, [r \in 1..d.n |-> Str(<<"U","n","k","n","o","w","n">>)], "object")
    ELSE NormalizeValues(d)

\* -------------------------------------------------- add_calculated_fields
IsNa(c) == c.k \in {"nat", "null"}

\* `df['DueDate'] < today` raises TypeError unless the one DueDate column is
\* tz-aware like today (a tz-naive or unparsed column cannot be compared)
DaysLateRaises(d) ==
    /\ N_DueDate \in Names(d)
    /\ N_Status \in Names(d)
    /\ \/ Cardinality(Positions(d, N_DueDate)) > 1
       \/ Cardinality(Positions(d, N_Status)) > 1
       \/ TheCol(d, N_DueDate).dtype # "datetime64tz"

\* Overdue without the test that the job is not complete
Overdue_IgnoresStatus(due, status, now) ==
    /\ ~IsNa(due)
    /\ due.t < now

\* overdue_mask for one row
Overdue(due, status, now) ==
    /\ ~IsNa(due)
    /\ due.t < now
    /\ status # Str(<<"C","o","m","p","l","e","t","e">>)

\* (today - DueDate).dt.days for one row: whole days, rounded down
DaysBetween(from, to) == (to - from) \div MinutesPerDay

DaysLateCells(d, now) ==
    IF N_DueDate \in Names(d) /\ N_Status \in Names(d)
    THEN [r \in 1..d.n |->
            IF Overdue(TheCol(d, N_DueDate).cells[r], TheCol(d, N_Status).cells[r], now)
            THEN IntV(DaysBetween(TheCol(d, N_DueDate).cells[r].t, now))
            ELSE IntV(0)]
    ELSE [r \in 1..d.n |-> IntV(0)]

HasDuration(d) == N_StartDate \in Names(d) /\ N_CustomerRequestDate \in Names(d)

\* the subtraction raises TypeError when one column is tz-aware and the
\* other is not, or when a column was not parsed into datetimes
DurationRaises(d) ==
    /\ HasDuration(d)
    /\ \/ Cardinality(Positions(d, N_StartDate)) > 1
       \/ Cardinality(Positions(d, N_CustomerRequestDate)) > 1
       \/ TheCol(d, N_StartDate).dtype = "object"
       \/ TheCol(d, N_StartDate).dtype # TheCol(d, N_CustomerRequestDate).dtype

\* df.loc[duration_mask, 'DurationDays'] = (...).dt.days: the rows outside
\* the mask keep what they had, missing in a column that is new
DurationCells(d) ==
    LET sd  == TheCol(d, N_StartDate).cells
        crd == TheCol(d, N_CustomerRequestDate).cells
    IN  [r \in 1..d.n |->
            IF ~IsNa(sd[r]) /\ ~IsNa(crd[r])
            THEN IntV(DaysBetween(sd[r].t, crd[r].t))
            ELSE IF N_DurationDays \in Names(d)
                 THEN TheCol(d, N_DurationDays).cells[r]
                 ELSE Null]

add_calculated_fields(d, now) ==
    LET d1 == SetColumn(d, N_DaysLate, DaysLateCells(d, now), "object")
    IN  IF DaysLateRaises(d) THEN [raised |-> TRUE, df |-> d]
        ELSE IF DurationRaises(d1) THEN [raised |-> TRUE, df |-> d1]
        ELSE IF HasDuration(d1)
        THEN [raised |-> FALSE,
              df |-> SetColumn(d1, N_DurationDays, DurationCells(d1), "object")]
        ELSE [raised |-> FALSE, df |-> d1]

\* ---------------------------------------------------------- input tables
\* the raw table a fetch returns: every column has dtype object and src its
\* own position
MakeTable(layout, n, cells) ==
    [cols |-> [i \in 1..Len(layout) |-> Col(layout[i], cells[i], "object", i)],
     n    |-> n]

\* every way to pick one element from each set of a sequence of sets
RECURSIVE ColumnChoices(_)
ColumnChoices(sets) ==
    IF sets = <<>> THEN {<<>>}
    ELSE {<<c>> \o rest : c \in Head(sets), rest \in ColumnChoices(Tail(sets))}

Distinct(s) == \A i, j \in 1..Len(s) : i # j => s[i] # s[j]

\* the sequences of k distinct headers of HS (headers of a sheet are unique)
RECURSIVE LayoutsOfLen(_, _)
LayoutsOfLen(HS, k) ==
    IF k = 0 THEN {<<>>}
    ELSE {s \in {Append(l, h) : l \in LayoutsOfLen(HS, k - 1), h \in HS} :
             Distinct(s)}

\* the tables with header row `layout`, n rows, and the cells of column i
\* drawn from cellsOf[i]
TablesOf(layout, n, cellsOf) ==
    {MakeTable(layout, n, cs) :
        cs \in ColumnChoices([i \in 1..Len(layout) |-> [1..n -> cellsOf[i]]])}

H_status    == <<"s","t","a","t","u","s">>
H_JobStatus == <<"J","o","b"," ","S","t","a","t","u","s">>
H_DueDate   == <<"D","u","e"," ","D","a","t","e">>
H_Start     == <<"S","t","a","r","t">>
H_EndDate   == <<"E","n","d"," ","D","a","t","e">>
H_ShipDate  == <<"S","h","i","p"," ","D","a","t","e">>
H_Color     == <<"C","o","l","o","r">>

\* --- the header-layout family: every order of up to MaxCols of these
\* headers, few values per cell
LayoutHeaders ==
    {N_Status, H_status, H_JobStatus, H_DueDate, H_Start, H_EndDate,
     H_ShipDate, H_Color}

LayoutRaw(h) ==
    IF Contains(<<"s","t","a","t","u","s">>, Lower(h)) THEN {Str(<<"d","o","n","e">>), Str(<<"b","o","g","u","s">>)}
    ELSE IF h = H_Color THEN {Str(<<"r","e","d">>)}
    ELSE {Str(<<"2","0","2","4","-","0","3","-","0","9">>)}

LayoutInputs ==
    UNION {TablesOf(l, n, [i \in 1..Len(l) |-> LayoutRaw(l[i])]) :
              l \in UNION {LayoutsOfLen(LayoutHeaders, k) : k \in 1..MaxCols},
              n \in 0..MaxLayoutRows}

\* --- the status-value family: one column called Status, many raw values
StatusRaw ==
    { Str(<<"p","l","a","n","n","e","d">>), Str(<<"P","e","n","d","i","n","g">>), Str(<<" "," ","I","N"," ","P","R","O","G","R","E","S","S"," ">>),
      Str(<<"i","n","-","p","r","o","g","r","e","s","s">>), Str(<<"I","n","P","r","o","g","r","e","s","s">>), Str(<<"c","o","m","p","l","e","t","e">>),
      Str(<<"C","o","m","p","l","e","t","e","d">>), Str(<<"d","o","n","e">>), Str(<<"H","o","l","d">>), Str(<<"o","n"," ","h","o","l","d">>),
      Str(<<"p","a","u","s","e","d","\t">>), Str(<<"i","n"," "," ","p","r","o","g","r","e","s","s">>), Str(<<"b","o","g","u","s">>), Str(<<>>),
      Null, IntV(7) }

StatusInputs ==
    UNION {TablesOf(<<N_Status>>, n, <<StatusRaw>>) : n \in 0..MaxRows}

\* --- the date family: date columns whose cells are all dates, or all
\* dates with a time, next to text that is no date
DateOnlyRaw  == {Str(<<"2","0","2","4","-","0","3","-","0","9">>), Str(<<"2","0","2","4","-","0","3","-","1","1">>), Str(<<"2","0","2","4","-","1","1","-","0","4">>)}
DateTimeRaw  == {Str(<<"2","0","2","4","-","1","1","-","0","3"," ","0","1",":","3","0">>), Str(<<"2","0","2","4","-","1","1","-","0","3"," ","0","1",":","0","0">>),
                 Str(<<"2","0","2","4","-","0","3","-","1","0"," ","0","2",":","3","0">>)}
NotDateRaw   == {Str(<<"N","/","A">>)}
DoneOrNot    == {Str(<<"d","o","n","e">>), Str(<<"p","l","a","n","n","e","d">>)}

DateInputs ==
    UNION {   TablesOf(<<H_DueDate, N_Status>>, n, <<DateOnlyRaw \cup NotDateRaw, DoneOrNot>>)
         \cup TablesOf(<<H_DueDate, N_Status>>, n, <<DateTimeRaw \cup NotDateRaw, DoneOrNot>>)
         \cup TablesOf(<<H_Start, H_EndDate>>, n,
                       <<DateOnlyRaw \cup NotDateRaw, DateOnlyRaw \cup NotDateRaw>>)
         \cup TablesOf(<<H_Start, H_EndDate>>, n,
                       <<DateTimeRaw \cup NotDateRaw, DateOnlyRaw \cup NotDateRaw>>)
         \cup TablesOf(<<H_ShipDate>>, n, <<DateOnlyRaw \cup NotDateRaw>>)
         : n \in 0..MaxRows}

\* --- the second-call family: tables whose headers all become canonical
\* fields, for calling process_dataframe on the schedule it returned
H_MhsJob == <<"M","H","S"," ","J","o","b"," ","#">>

RerunInputs ==
    UNION {   TablesOf(<<H_DueDate, N_Status>>, n,
                       <<{Str(<<"2","0","2","4","-","0","3","-","0","9">>), Str(<<"N","/","A">>)}, DoneOrNot>>)
         \cup TablesOf(<<H_Start, H_EndDate>>, n,
                       <<{Str(<<"2","0","2","4","-","0","3","-","0","9">>), Str(<<"N","/","A">>)},
                         {Str(<<"2","0","2","4","-","1","1","-","0","4">>), Str(<<"N","/","A">>)}>>)
         \cup TablesOf(<<H_MhsJob, H_ShipDate>>, n,
                       <<{Str(<<"M","H","S","-","0","0","1">>)},
                         {Str(<<"2","0","2","4","-","0","3","-","1","1">>), Str(<<"2","0","2","4","-","1","1","-","0","3"," ","0","1",":","3","0">>)}>>)
         \cup TablesOf(<<H_Color, H_DueDate>>, n,
                       <<{Str(<<"r","e","d">>)}, {Str(<<"2","0","2","4","-","0","3","-","0","9">>)}>>)
         : n \in 0..MaxLayoutRows}

\* --- the header family: one column under every key of column_mapping, as
\* written and in capitals, and every order of up to MaxCols headers that
\* compete for a canonical name
H_Job          == <<"J","o","b">>
H_ID           == <<"I","D">>
H_ShipDeadline == <<"S","h","i","p"," ","D","e","a","d","l","i","n","e">>

AliasHeaders ==
    {p[1] : p \in column_mapping} \cup {Upper(p[1]) : p \in column_mapping}
        \cup {H_MhsJob, H_Color}

CompetingHeaders ==
    {H_Job, H_ID, <<"D","e","a","d","l","i","n","e">>, H_DueDate, H_ShipDate, H_ShipDeadline,
     H_EndDate, <<"F","i","n","i","s","h">>}

\* the value of every cell of the column at position i
ValueAt(i) ==
    IF i = 1 THEN Str(<<"2","0","2","4","-","0","3","-","0","9">>)
    ELSE IF i = 2 THEN Str(<<"2","0","2","4","-","0","3","-","1","1">>)
    ELSE Str(<<"2","0","2","4","-","1","1","-","0","4">>)

HeaderInputs ==
    UNION {TablesOf(<<h>>, n, <<{Str(<<"M","H","S","-","0","0","1">>)}>>) :
              h \in AliasHeaders, n \in 0..MaxRows}
    \cup
    UNION {TablesOf(l, n, [i \in 1..Len(l) |-> {ValueAt(i)}]) :
              l \in UNION {LayoutsOfLen(CompetingHeaders, k) : k \in 2..MaxCols},
              n \in 0..MaxLayoutRows}

\* the instants datetime.now(TZ) may return (UTC minutes): before every
\* date of the inputs, exactly midnight of 2024-03-09, between them, after
NowChoices ==
    { LocalToUtc(CivilMinutes(2024, 1, 15, 9, 30), FALSE),
      LocalToUtc(CivilMinutes(2024, 3, 9, 0, 0), FALSE),
      LocalToUtc(CivilMinutes(2024, 3, 12, 8, 0), FALSE),
      LocalToUtc(CivilMinutes(2024, 11, 6, 17, 45), FALSE) }

\* ------------------------------------------------------ process_dataframe
\* pc names the stage that runs next; "done" is the return of
\* process_dataframe and "raised" an exception leaving it
NoTable == [cols |-> <<>>, n |-> 0]

InitWith(tables) ==
    /\ input \in tables
    /\ df = input
    /\ warnings = <<>>
    /\ pc = "start"
    /\ today = 0
    /\ same_object = TRUE
    /\ date_mapping = <<>>
    /\ call = 1
    \* no dashboard session: nothing is written anywhere
    /\ sheet = NoTable
    /\ source_type = "none"
    /\ wpc = "idle"
    /\ written = NoTable
    /\ before = NoTable
    /\ caller = "none"

\* what the caller's table holds after df was assigned to in place: the
\* assignment shows in it while df is still the caller's object
Caller(newdf) == IF same_object THEN newdf ELSE input

\* if df.empty: return df, warnings
ReturnEmpty ==
    /\ pc = "start"
    /\ IsEmpty(df)
    /\ pc' = "done"
    /\ UNCHANGED <<input, df, warnings, today, same_object, date_mapping, call>>
    /\ UNCHANGED appvars

\* df = df.rename(columns=rename_dict) binds df to a new table before the
\* defaults are assigned into it
StandardizeColumns ==
    /\ pc = "start"
    /\ ~IsEmpty(df)
    /\ df' = standardize_columns(df)
    /\ same_object' = (same_object /\ ~rename_returns_new)
    /\ input' = IF same_object' THEN df' ELSE input
    /\ pc' = "parse"
    /\ UNCHANGED <<warnings, today, date_mapping, call>>
    /\ UNCHANGED appvars

\* df, date_warnings = parse_dates(df); warnings.extend(date_warnings)
ParseDates ==
    /\ pc = "parse"
    /\ LET r == parse_dates(df)
       IN  /\ df' = r.df
           /\ warnings' = warnings \o r.warnings
    /\ date_mapping' = infer_date_columns(df)
    /\ same_object' = (same_object /\ ~rename_returns_new)
    /\ input' = IF same_object' THEN df' ELSE input
    /\ pc' = "status"
    /\ UNCHANGED <<today, call>>
    /\ UNCHANGED appvars

NormalizeStatus ==
    /\ pc = "status"
    /\ df' = normalize_status(df)
    /\ input' = Caller(df')
    /\ pc' = "calc"
    /\ UNCHANGED <<warnings, today, same_object, date_mapping, call>>
    /\ UNCHANGED appvars

\* today = datetime.now(TZ) is read once, at the start of the stage
AddCalculatedFields ==
    /\ pc = "calc"
    /\ \E now \in NowChoices :
          LET r == add_calculated_fields(df, now)
          IN  /\ now >= today
              /\ today' = now
              /\ df' = r.df
              /\ pc' = IF r.raised THEN "raised" ELSE "done"
    /\ input' = Caller(df')
    /\ UNCHANGED <<warnings, same_object, date_mapping, call>>
    /\ UNCHANGED appvars

\* the caller passes the schedule a call returned to process_dataframe
\* again: it is the raw table of the second call
Rerun ==
    /\ pc = "done"
    /\ call = 1
    /\ input' = [df EXCEPT !.cols = [i \in 1..Len(df.cols) |->
                      [df.cols[i] EXCEPT !.src = i]]]
    /\ df' = input'
    /\ warnings' = <<>>
    /\ pc' = "start"
    /\ same_object' = TRUE
    /\ date_mapping' = <<>>
    /\ call' = 2
    /\ UNCHANGED today
    /\ UNCHANGED appvars

Next ==
    \/ ReturnEmpty
    \/ StandardizeColumns
    \/ ParseDates
    \/ NormalizeStatus
    \/ AddCalculatedFields

\* the header-layout family
Init == InitWith(LayoutInputs)
Spec == Init /\ [][Next]_vars

\* the status-value family
SpecStatus == InitWith(StatusInputs) /\ [][Next]_vars

\* the date family
SpecDates == InitWith(DateInputs) /\ [][Next]_vars

\* the second-call family, with the call on the returned schedule
NextRerun == Next \/ Rerun
SpecRerun == InitWith(RerunInputs) /\ [][NextRerun]_vars

\* ============================================================ the dashboard
\* streamlit_app.py: main() fetches and processes the worksheet, shows the
\* filtered schedule in an editable table, and writes back on Save Changes
\* and on Add Job through write_to_google_sheets.

\* int(text) for a text of digits
RECURSIVE StrToInt(_)
StrToInt(s) ==
    IF s = <<>> THEN 0
    ELSE StrToInt(SubSeq(s, 1, Len(s) - 1)) * 10 + DigitVal(s[Len(s)])

\* get_all_records() turns a cell that reads as a number into that number
Numericise(c) ==
    IF c.k = "str" /\ c.s # <<>> /\ AllDigits(c.s, 1, Len(c.s))
    THEN IntV(StrToInt(c.s))
    ELSE c

\* pd.DataFrame(worksheet.get_all_records()): the empty DataFrame for a
\* worksheet without data rows
Records(ws) ==
    IF ws.n = 0 \/ Len(ws.cols) = 0 THEN NoTable
    ELSE [cols |-> [i \in 1..Len(ws.cols) |->
                      Col(ws.cols[i].name,
                          [r \in 1..ws.n |-> Numericise(ws.cols[i].cells[r])],
                          "object", i)],
          n |-> ws.n]

\* the rows of d at the positions in keep, in order
KeepRows(d, keep) ==
    LET idx == SelectSeq([i \in 1..d.n |-> i], LAMBDA i : i \in keep)
    IN  [cols |-> [c \in 1..Len(d.cols) |->
                      [d.cols[c] EXCEPT !.cells =
                          [k \in 1..Len(idx) |-> d.cols[c].cells[idx[k]]]]],
         n |-> Len(idx)]

\* apply_filters with the Status multiselect set to `selected` and every
\* other filter at its default
apply_filters(d, selected) ==
    KeepRows(d, {r \in 1..d.n : TheCol(d, N_Status).cells[r] \in selected})

\* the values the Status multiselect offers
StatusOptions(d) == {TheCol(d, N_Status).cells[r] : r \in 1..d.n}

\* display_df: the date columns that have a datetime dtype are formatted
display_df(d) ==
    [d EXCEPT !.cols = [i \in 1..Len(d.cols) |->
        IF d.cols[i].name \in Range(date_cols) /\ d.cols[i].dtype # "object"
        THEN [d.cols[i] EXCEPT
                 !.cells = [r \in 1..d.n |-> strftime(d.cols[i].cells[r])],
                 !.dtype = "object"]
        ELSE d.cols[i]]]

preferred_cols ==
    <<N_JobID, N_JobName, N_Branch, N_CustomerName, N_Priority, N_Status,
      N_Quantity, N_StartDate, N_CustomerRequestDate, N_ShipDate, N_DueDate,
      N_Notes>>

\* display_df[display_cols]
Displayed(d) ==
    LET shown == SelectSeq(preferred_cols, LAMBDA c : c \in Names(d))
    IN  IF shown = <<>> THEN d
        ELSE [d EXCEPT !.cols = [k \in 1..Len(shown) |-> TheCol(d, shown[k])]]

\* what the user may leave in the data editor: the table as shown, or with
\* the Status of its first row set to Hold
Edits(t) ==
    {t} \cup
    {[t EXCEPT !.cols = [i \in 1..Len(t.cols) |->
         IF t.cols[i].name = N_Status
         THEN [t.cols[i] EXCEPT !.cells[1] = Str(<<"H","o","l","d">>)]
         ELSE t.cols[i]]]}

\* new_row of the Add Job form, in the order of its keys
new_row(job_id, day) ==
    << <<N_JobID, Str(job_id)>>, <<N_JobName, Str(<<>>)>>,
       <<N_Branch, Str(<<"U","n","a","s","s","i","g","n","e","d">>)>>, <<N_CustomerName, Str(<<"U","n","a","s","s","i","g","n","e","d">>)>>,
       <<N_Priority, Str(<<"M","e","d","i","u","m">>)>>, <<N_Status, Str(<<"P","l","a","n","n","e","d">>)>>,
       <<N_Quantity, IntV(1)>>, <<N_StartDate, Str(day)>>,
       <<N_CustomerRequestDate, Str(day)>>, <<N_ShipDate, Str(day)>>,
       <<N_DueDate, Str(day)>>, <<N_Notes, Str(<<>>)>> >>

\* the value new_row gives column `name`, missing when it has no such key
RowValue(row, name) ==
    IF \E k \in 1..Len(row) : row[k][1] = name
    THEN row[CHOOSE k \in 1..Len(row) : row[k][1] = name][2]
    ELSE Null

\* pd.concat([df, pd.DataFrame([new_row])], ignore_index=True): the columns
\* of df, then those only the new row has; a value a table lacks is missing
concat(d, row) ==
    LET added == SelectSeq(row, LAMBDA kv : kv[1] \notin Names(d))
    IN  [cols |->
            [i \in 1..Len(d.cols) |->
                [d.cols[i] EXCEPT
                    !.cells = Append(@, RowValue(row, d.cols[i].name)),
                    !.dtype = "object"]]
            \o
            [k \in 1..Len(added) |->
                Col(added[k][1],
                    [r \in 1..(d.n + 1) |-> IF r <= d.n THEN Null ELSE added[k][2]],
                    "object", 0)],
         n |-> d.n + 1]

\* json cannot encode a Timestamp or NaT: worksheet.update raises on them
Serializable(t) ==
    \A i \in 1..Len(t.cols) : \A r \in 1..t.n :
        t.cols[i].cells[r].k \in {"str", "int", "null"}

\* the worksheet after update('A1', values): header row and rows as
\* written, a missing value as an empty cell
AsSheet(t) ==
    [cols |-> [i \in 1..Len(t.cols) |->
                  Col(t.cols[i].name,
                      [r \in 1..t.n |-> IF t.cols[i].cells[r].k = "null"
                                        THEN Str(<<>>) ELSE t.cols[i].cells[r]],
                      "object", i)],
     n |-> t.n]

WriteRunning == wpc \in {"connect", "clear", "update"}

\* the page is drawn with the processed schedule
Rendered == pc = "done" /\ ~WriteRunning /\ ~IsEmpty(df)

\* fetch_schedule_data on a cache miss: the worksheet is read and handed to
\* process_dataframe (a published CSV holds what the worksheet holds)
Fetch ==
    /\ pc = "fetch"
    /\ input' = Records(sheet)
    /\ df' = input'
    /\ warnings' = <<>>
    /\ pc' = "start"
    /\ same_object' = TRUE
    /\ date_mapping' = <<>>
    /\ wpc' = "idle"
    /\ written' = NoTable
    /\ before' = NoTable
    /\ caller' = "none"
    /\ UNCHANGED <<today, call, sheet, source_type>>

\* the Save Changes button of render_editable_table, shown the filtered
\* schedule: write_to_google_sheets is called with the edited table
SaveChanges ==
    /\ Rendered
    /\ source_type = "service_account"
    /\ \E selected \in SUBSET StatusOptions(df) :
          LET filtered_df == apply_filters(df, selected)
          IN  /\ ~IsEmpty(filtered_df)
              /\ \E edited_df \in Edits(Displayed(display_df(filtered_df))) :
                    written' = edited_df
    /\ before' = sheet
    /\ caller' = "save"
    /\ wpc' = "connect"
    /\ UNCHANGED <<pipevars, sheet, source_type>>

NewJobIds == {<<"J","9">>}
NewJobDays == {<<"2","0","2","4","-","0","3","-","1","2">>}

\* the Add Job form without the early return of render_add_job_form
AddJob_NoSourceCheck ==
    /\ Rendered
    /\ df.n < MaxJobs
    /\ \E job_id \in NewJobIds, day \in NewJobDays :
          written' = concat(df, new_row(job_id, day))
    /\ before' = sheet
    /\ caller' = "add"
    /\ wpc' = "connect"
    /\ UNCHANGED <<pipevars, sheet, source_type>>

\* the Add Job form submitted with a job number: write_to_google_sheets is
\* called with the processed schedule and the new row
AddJob ==
    /\ Rendered
    /\ source_type = "service_account"
    /\ df.n < MaxJobs
    /\ \E job_id \in NewJobIds, day \in NewJobDays :
          written' = concat(df, new_row(job_id, day))
    /\ before' = sheet
    /\ caller' = "add"
    /\ wpc' = "connect"
    /\ UNCHANGED <<pipevars, sheet, source_type>>

\* write_to_google_sheets: client, spreadsheet and worksheet are obtained
WriteConnect ==
    /\ wpc = "connect"
    /\ wpc' = "clear"
    /\ UNCHANGED <<pipevars, sheet, source_type, written, before, caller>>

\* worksheet.clear()
WriteClear ==
    /\ wpc = "clear"
    /\ sheet' = NoTable
    /\ wpc' = "update"
    /\ UNCHANGED <<pipevars, source_type, written, before, caller>>

\* worksheet.update('A1', values) succeeds; the caller then clears the
\* cache and reruns the script
WriteUpdate ==
    /\ wpc = "update"
    /\ Serializable(written)
    /\ sheet' = AsSheet(written)
    /\ wpc' = "ok"
    /\ pc' = "fetch"
    /\ UNCHANGED <<input, df, warnings, today, same_object, date_mapping, call>>
    /\ UNCHANGED <<source_type, written, before, caller>>

\* the call that is about to run raises: write_to_google_sheets raises
\* DataFetchError and the caller shows the error
WriteFails ==
    /\ WriteRunning
    /\ wpc' = "failed"
    /\ UNCHANGED <<pipevars, sheet, source_type, written, before, caller>>

\* the Refresh Data button (or the cache entry expiring)
Refresh ==
    /\ pc \in {"done", "raised"}
    /\ ~WriteRunning
    /\ pc' = "fetch"
    /\ UNCHANGED <<input, df, warnings, today, same_object, date_mapping, call>>
    /\ UNCHANGED appvars

\* the Discard button of render_editable_table: st.rerun() runs the script
\* again, which draws the page without the outcome of the last write, from
\* the cached schedule or, the cache entry having expired, from a new fetch
Discard ==
    /\ Rendered
    /\ pc' \in {"done", "fetch"}
    /\ wpc' = "idle"
    /\ written' = NoTable
    /\ before' = NoTable
    /\ caller' = "none"
    /\ UNCHANGED <<input, df, warnings, today, same_object, date_mapping, call>>
    /\ UNCHANGED <<sheet, source_type>>

\* the Connection Type radio
SwitchConnection ==
    /\ pc \in {"done", "raised"}
    /\ ~WriteRunning
    /\ source_type' = IF source_type = "service_account"
                       THEN "public_csv" ELSE "service_account"
    /\ pc' = "fetch"
    /\ UNCHANGED <<input, df, warnings, today, same_object, date_mapping, call>>
    /\ UNCHANGED <<sheet, wpc, written, before, caller>>

\* --- the worksheets of the dashboard family: jobs J1, J2 with a status, a
\* due date and a ship date
H_J1 == <<"J","1">>
H_J2 == <<"J","2">>

SheetInputs ==
    UNION {TablesOf(<<H_MhsJob, N_Status, H_DueDate, H_ShipDate>>, n,
                    <<{Str(H_J1), Str(H_J2)}, DoneOrNot,
                      {Str(<<"2","0","2","4","-","0","3","-","0","9">>), Str(<<"N","/","A">>)},
                      {Str(<<"2","0","2","4","-","0","3","-","1","1">>)}>>)
              : n \in 1..MaxJobs}

InitApp ==
    /\ sheet \in {t \in SheetInputs :
                     \A r \in 1..t.n : t.cols[1].cells[r] = Str(IF r = 1 THEN H_J1 ELSE H_J2)}
    /\ source_type \in {"service_account", "public_csv"}
    /\ pc = "fetch"
    /\ input = NoTable
    /\ df = NoTable
    /\ warnings = <<>>
    /\ today = 0
    /\ same_object = TRUE
    /\ date_mapping = <<>>
    /\ call = 1
    /\ wpc = "idle"
    /\ written = NoTable
    /\ before = NoTable
    /\ caller = "none"

NextApp ==
    \/ Fetch
    \/ Next
    \/ SaveChanges
    \/ AddJob
    \/ WriteConnect
    \/ WriteClear
    \/ WriteUpdate
    \/ WriteFails
    \/ Discard
    \/ Refresh
    \/ SwitchConnection

SpecApp == InitApp /\ [][NextApp]_vars

\* the header family
SpecHeaders == InitWith(HeaderInputs) /\ [][Next]_vars

\* ================================================================= claims
Done          == pc = "done"
NonEmptyInput == ~IsEmpty(input)
InputHeaders  == {input.cols[i].name : i \in 1..Len(input.cols)}
StatusLike(h) == Contains(<<"s","t","a","t","u","s">>, Lower(h))
Rows          == 1..df.n

\* the Status of output row r
OutStatus(r) == TheCol(df, N_Status).cells[r]

StatusEnum ==
    {Str(<<"P","l","a","n","n","e","d">>), Str(<<"I","n","-","P","r","o","g","r","e","s","s">>), Str(<<"C","o","m","p","l","e","t","e">>), Str(<<"H","o","l","d">>)}

\* the first input column whose header contains "status"
FirstStatusLike ==
    SetMin({i \in 1..Len(input.cols) : StatusLike(input.cols[i].name)})

\* C1 (as claimed): when no header of a non-empty input contains "status",
\* every row of the returned schedule has Status "Unknown".
C1_NoStatusHeaderGivesUnknown ==
    (Done /\ NonEmptyInput /\ \A h \in InputHeaders : ~StatusLike(h))
        => /\ N_Status \in Names(df)
           /\ \A r \in Rows : OutStatus(r) = Str(<<"U","n","k","n","o","w","n">>)

\* C2 (as claimed): when no header is spelled Status but some header
\* contains "status", the Status of each output row is the canonical form
\* of that column's raw value in the row.
C2_StatusLikeHeaderIsUsed ==
    (Done /\ NonEmptyInput /\ N_Status \notin InputHeaders
          /\ \E h \in InputHeaders : StatusLike(h))
        => \A r \in Rows :
              OutStatus(r) = NormalizeCell(input.cols[FirstStatusLike].cells[r])

\* C3: when a non-empty input has a status-like column, every row of the
\* output has one Status and it is Planned, In-Progress, Complete or Hold.
C3_StatusInEnum ==
    (Done /\ NonEmptyInput /\ \E h \in InputHeaders : StatusLike(h))
        => /\ Cardinality(Positions(df, N_Status)) = 1
           /\ \A r \in Rows : OutStatus(r) \in StatusEnum

\* C3 witness: a run returned with a raw Status that matches no alias.
C3_Witness ==
    /\ Done /\ NonEmptyInput
    /\ N_Status \in InputHeaders
    /\ \E r \in Rows : /\ TheCol(input, N_Status).cells[r] = Str(<<"b","o","g","u","s">>)
                       /\ OutStatus(r) = Str(<<"P","l","a","n","n","e","d">>)

CanonicalFields ==
    {N_JobID, N_JobName, N_Branch, N_CustomerName, N_Priority, N_Status,
     N_Quantity, N_StartDate, N_CustomerRequestDate, N_ShipDate, N_DueDate,
     N_Notes, N_DaysLate, N_DurationDays}

\* C4 (as claimed): the columns of the returned schedule are exactly the
\* canonical fields, each once.
C4_ExactlyCanonicalColumns ==
    (Done /\ NonEmptyInput)
        => /\ Names(df) = CanonicalFields
           /\ Len(df.cols) = Cardinality(CanonicalFields)

AlwaysColumns ==
    {N_JobID, N_JobName, N_Branch, N_CustomerName, N_Priority, N_Status,
     N_Quantity, N_ShipDate, N_Notes, N_DaysLate}

\* C4 (amended): the returned schedule always has the columns JobID,
\* JobName, Branch, CustomerName, Priority, Status, Quantity, ShipDate,
\* Notes and DaysLate; a StartDate, CustomerRequestDate or DueDate column
\* is always one made from an input column; a DurationDays column is added
\* exactly when StartDate and CustomerRequestDate are both columns; and
\* every input column is still a column of the schedule.
C4_ColumnsOfSchedule ==
    (Done /\ NonEmptyInput)
        => /\ AlwaysColumns \subseteq Names(df)
           /\ \A i \in 1..Len(df.cols) :
                 df.cols[i].name \in {N_StartDate, N_CustomerRequestDate, N_DueDate}
                    => df.cols[i].src # 0
           /\ (\E i \in 1..Len(df.cols) :
                  df.cols[i].name = N_DurationDays /\ df.cols[i].src = 0)
                 <=> HasDuration(df)
           /\ \A j \in 1..Len(input.cols) :
                 \E i \in 1..Len(df.cols) : df.cols[i].src = j

\* C4 witness: a returned schedule that keeps a non-canonical column and
\* has no DueDate column.
C4_Witness ==
    /\ Done /\ NonEmptyInput
    /\ H_Color \in Names(df)
    /\ N_DueDate \notin Names(df)

\* C5 (as claimed): process_dataframe never raises on a non-empty table.
C5_NeverRaises == pc # "raised"

\* the DaysLate of output row r
OutDaysLate(r) == TheCol(df, N_DaysLate).cells[r]

\* C6: DaysLate is 0 when Status is Complete, or there is no DueDate, or
\* DueDate is not before now; otherwise it is the whole days from DueDate
\* to now, rounded down, and not negative.
C6_DaysLate ==
    (Done /\ NonEmptyInput)
        => \A r \in Rows :
              IF \/ OutStatus(r) = Str(<<"C","o","m","p","l","e","t","e">>)
                 \/ N_DueDate \notin Names(df)
                 \/ TheCol(df, N_DueDate).cells[r].k # "aware"
                 \/ TheCol(df, N_DueDate).cells[r].t >= today
              THEN OutDaysLate(r) = IntV(0)
              ELSE /\ OutDaysLate(r).k = "int"
                   /\ OutDaysLate(r).t >= 0
                   /\ OutDaysLate(r).t * MinutesPerDay
                         <= today - TheCol(df, N_DueDate).cells[r].t
                   /\ today - TheCol(df, N_DueDate).cells[r].t
                         < (OutDaysLate(r).t + 1) * MinutesPerDay

\* C6 witness: a returned schedule with a late row and a complete row that
\* is past due.
C6_Witness ==
    /\ Done /\ NonEmptyInput
    /\ N_DueDate \in Names(df)
    /\ \E r \in Rows : OutDaysLate(r).t > 1
    /\ \E r \in Rows : /\ OutStatus(r) = Str(<<"C","o","m","p","l","e","t","e">>)
                       /\ TheCol(df, N_DueDate).cells[r].k = "aware"
                       /\ TheCol(df, N_DueDate).cells[r].t < today

\* the raw input cell that the cell of row r of the output column `name`
\* was made from
SourceCell(name, r) == input.cols[TheCol(df, name).src].cells[r]

\* the day number of a raw text of the form YYYY-MM-DD
CalendarDay(s) == DaysFromCivil(Num4(s, 1), Num2(s, 6), Num2(s, 9))

BothDatesPresent(r) ==
    /\ HasDuration(df)
    /\ ~IsNa(TheCol(df, N_StartDate).cells[r])
    /\ ~IsNa(TheCol(df, N_CustomerRequestDate).cells[r])

DurationSet(r) ==
    /\ N_DurationDays \in Names(df)
    /\ TheCol(df, N_DurationDays).cells[r].k = "int"

\* C7 (as claimed): DurationDays is set exactly in the rows that have both
\* StartDate and CustomerRequestDate, and for date-only source values it is
\* the number of calendar days from StartDate to CustomerRequestDate.
C7_DurationIsCalendarDays ==
    (Done /\ NonEmptyInput)
        => \A r \in Rows :
              /\ DurationSet(r) <=> BothDatesPresent(r)
              /\ ( /\ DurationSet(r)
                   /\ IsDateText(SourceCell(N_StartDate, r).s)
                   /\ IsDateText(SourceCell(N_CustomerRequestDate, r).s) )
                 => TheCol(df, N_DurationDays).cells[r].t =
                      CalendarDay(SourceCell(N_CustomerRequestDate, r).s)
                      - CalendarDay(SourceCell(N_StartDate, r).s)

\* the number of raw source values of date field F that are no date: 0 when
\* no input column was mapped to F
Unparsed(F) ==
    IF F \in Names(df) /\ TheCol(df, F).src # 0
    THEN Cardinality({r \in 1..input.n : to_datetime(SourceCell(F, r)).k = "nat"})
    ELSE 0

\* C8 (as claimed): for each date field F the WarningLog holds "Failed to
\* parse N dates in F" exactly when N > 0, N being the number of raw source
\* values of F that are no date.
C8_FailedWarningIffUnparsed ==
    (Done /\ NonEmptyInput)
        => \A F \in Range(date_cols) :
              /\ Unparsed(F) > 0
                    => FailedWarning(F, Unparsed(F)) \in Range(warnings)
              /\ \A i \in 1..Len(warnings) :
                    (warnings[i].kind = "failed" /\ warnings[i].field = F)
                       => (Unparsed(F) > 0 /\ warnings[i].n = Unparsed(F))

\* a raw value of the input's Status column matches no alias
UnmappedStatus ==
    /\ N_Status \in InputHeaders
    /\ \E r \in 1..input.n :
          Lower(Strip(AsStr(TheCol(input, N_Status).cells[r])))
             \notin {p[1] : p \in status_mapping}

\* a required column was missing from the input and was injected
InjectedRequired ==
    \E i \in 1..Len(df.cols) :
       /\ df.cols[i].src = 0
       /\ df.cols[i].name \in {required_cols[j].name : j \in 1..Len(required_cols)}

AllDatesParsed ==
    \A i \in 1..Len(df.cols) :
       df.cols[i].name \in Range(date_cols)
          => /\ df.cols[i].dtype = "datetime64tz"
             /\ \A r \in Rows : df.cols[i].cells[r].k = "aware"

AliasImage(text) ==
    IF text \in {<<"p","l","a","n","n","e","d">>, <<"p","e","n","d","i","n","g">>} THEN <<"P","l","a","n","n","e","d">>
    ELSE IF text \in {<<"i","n"," ","p","r","o","g","r","e","s","s">>, <<"i","n","-","p","r","o","g","r","e","s","s">>, <<"i","n","p","r","o","g","r","e","s","s">>}
    THEN <<"I","n","-","P","r","o","g","r","e","s","s">>
    ELSE IF text \in {<<"c","o","m","p","l","e","t","e">>, <<"c","o","m","p","l","e","t","e","d">>, <<"d","o","n","e">>} THEN <<"C","o","m","p","l","e","t","e">>
    ELSE IF text \in {<<"h","o","l","d">>, <<"o","n"," ","h","o","l","d">>, <<"p","a","u","s","e","d">>} THEN <<"H","o","l","d">>
    ELSE <<"P","l","a","n","n","e","d">>

\* C10: the output Status of a row whose raw value v is in a column named
\* Status is the alias-table image of v trimmed and lowercased, and Planned
\* when v matches no alias, is empty or is missing.
C10_StatusIsAliasImage ==
    (Done /\ NonEmptyInput /\ N_Status \in InputHeaders)
        => \A r \in Rows :
              LET v == TheCol(input, N_Status).cells[r]
              IN  OutStatus(r) =
                     IF v.k = "str" THEN Str(AliasImage(Strip(Lower(v.s))))
                     ELSE Str(<<"P","l","a","n","n","e","d">>)

\* C10 witness: a run returned where a raw Status with surrounding blanks
\* and capitals was mapped, and a missing one became Planned.
C10_Witness ==
    /\ Done /\ NonEmptyInput
    /\ N_Status \in InputHeaders
    /\ \E r \in Rows : /\ TheCol(input, N_Status).cells[r] = Str(<<" "," ","I","N"," ","P","R","O","G","R","E","S","S"," ">>)
                       /\ OutStatus(r) = Str(<<"I","n","-","P","r","o","g","r","e","s","s">>)
    /\ \E r \in Rows : /\ TheCol(input, N_Status).cells[r] = Null
                       /\ OutStatus(r) = Str(<<"P","l","a","n","n","e","d">>)

\* C11: on an input with zero rows process_dataframe runs no stage and
\* raises nothing, and it returns the input as it is (zero rows, no column
\* renamed, none injected, none derived) with an empty WarningLog.
C11_EmptyInputShortCircuits ==
    input.n = 0
        => /\ pc \in {"start", "done"}
           /\ df = input
           /\ df.n = 0
           /\ warnings = <<>>
           /\ date_mapping = <<>>

\* C11 witness: process_dataframe returned on a table with a header row and
\* no rows.
C11_Witness ==
    /\ Done
    /\ input.n = 0
    /\ Len(input.cols) > 0
    /\ N_DaysLate \notin Names(df)

\* a table is canonical: its columns are canonical fields, each once, its
\* date columns hold timezone-aware values, and every Status is one of the
\* four status names
Canonical(t) ==
    /\ \A i \in 1..Len(t.cols) : t.cols[i].name \in CanonicalFields
    /\ \A i, j \in 1..Len(t.cols) : t.cols[i].name = t.cols[j].name => i = j
    /\ \A i \in 1..Len(t.cols) :
          t.cols[i].name \in Range(date_cols) => t.cols[i].dtype = "datetime64tz"
    /\ N_Status \in Names(t)
    /\ \A r \in 1..t.n : TheCol(t, N_Status).cells[r] \in StatusEnum

\* C12: a second call of process_dataframe, on a canonical schedule that a
\* first call returned, returns: the schedule it returns has the same
\* columns under the same names, and every column other than DaysLate has
\* the values it had.
C12_SecondCallKeepsSchedule ==
    (call = 2 /\ Canonical(input))
        => /\ pc # "raised"
           /\ Done =>
                 /\ Len(df.cols) = Len(input.cols)
                 /\ \A i \in 1..Len(input.cols) :
                       /\ df.cols[i].name = input.cols[i].name
                       /\ df.cols[i].name # N_DaysLate
                             => df.cols[i].cells = input.cols[i].cells

\* C12 witness: the second call returned on a canonical schedule with a
\* parsed DueDate, after a later now gave a row another DaysLate.
C12_Witness ==
    /\ call = 2 /\ Done /\ Canonical(input)
    /\ N_DueDate \in Names(input)
    /\ \E r \in Rows :
          /\ TheCol(input, N_DueDate).cells[r].k = "aware"
          /\ TheCol(df, N_DueDate).cells[r] = TheCol(input, N_DueDate).cells[r]
          /\ OutDaysLate(r) # TheCol(input, N_DaysLate).cells[r]

\* the state after standardize_columns of the first call
Standardized == call = 1 /\ pc = "parse"

IdentityFields ==
    {N_JobID, N_JobName, N_Branch, N_CustomerName, N_Priority, N_Quantity,
     N_Notes}

\* the documented default of identity field F in the row at position r
\* (positions count from 0)
DocumentedDefault(F, r) ==
    IF F = N_JobID THEN Str(IntToStr(r))
    ELSE IF F \in {N_JobName, N_Notes} THEN Str(<<>>)
    ELSE IF F \in {N_Branch, N_CustomerName} THEN Str(<<"U","n","a","s","s","i","g","n","e","d">>)
    ELSE IF F = N_Priority THEN Str(<<"M","e","d","i","u","m">>)
    ELSE IntV(1)

\* the columns of df called F that were made from a raw column
MappedTo(F) == {i \in Positions(df, F) : df.cols[i].src # 0}

\* C13: after standardize_columns on a non-empty input, an identity field
\* that no raw header was mapped to is one column holding its documented
\* default in every row (JobID the row position as text), and a field a raw
\* header was mapped to holds that column's raw values and no default.
C13_DefaultsOnlyWhereUnmapped ==
    Standardized
        => \A F \in IdentityFields :
              IF MappedTo(F) = {}
              THEN /\ Cardinality(Positions(df, F)) = 1
                   /\ \A r \in Rows :
                         TheCol(df, F).cells[r] = DocumentedDefault(F, r - 1)
              ELSE \A i \in Positions(df, F) :
                      /\ df.cols[i].src # 0
                      /\ df.cols[i].cells = input.cols[df.cols[i].src].cells

\* C13 witness: on a two-row table whose only column was mapped to Notes,
\* standardize_columns kept the raw notes, filled JobID with the row
\* positions and Branch and Quantity with their defaults.
C13_Witness ==
    /\ Standardized
    /\ df.n = 2
    /\ MappedTo(N_JobID) = {}
    /\ MappedTo(N_Notes) # {}
    /\ TheCol(df, N_Notes).cells = <<Str(<<"M","H","S","-","0","0","1">>), Str(<<"M","H","S","-","0","0","1">>)>>
    /\ TheCol(df, N_JobID).cells = <<Str(<<"0">>), Str(<<"1">>)>>
    /\ TheCol(df, N_Branch).cells = <<Str(<<"U","n","a","s","s","i","g","n","e","d">>), Str(<<"U","n","a","s","s","i","g","n","e","d">>)>>
    /\ TheCol(df, N_Quantity).cells = <<IntV(1), IntV(1)>>

\* C14 (as claimed): a raw header that is, in any letter case, a key of
\* the alias table is renamed by standardize_columns to the canonical field
\* the table gives for that key, and keeps its values.
C14_EveryAliasKeyRenames ==
    Standardized
        => \A j \in 1..Len(input.cols) : \A p \in column_mapping :
              Lower(input.cols[j].name) = p[1]
                 => /\ df.cols[j].name = p[2]
                    /\ df.cols[j].cells = input.cols[j].cells

\* C15: no step of process_dataframe changes the caller's table, and the
\* schedule returned for a non-empty input is another table than the one
\* the caller passed.
C15_InputNotMutated ==
    [][ /\ input' = input
        /\ (pc' = "done" /\ ~IsEmpty(input)) => ~same_object' ]_vars

\* C15 witness: process_dataframe returned a schedule with injected and
\* derived columns while the caller's table still has only its own.
C15_Witness ==
    /\ Done /\ NonEmptyInput
    /\ ~same_object
    /\ N_DaysLate \in Names(df)
    /\ N_JobID \in Names(df)
    /\ Names(input) = {H_Color}

\* the headers infer_date_columns is given by the first call: those of the
\* table standardize_columns returned
Seen ==
    LET sc == standardize_columns(input).cols
    IN  [i \in 1..Len(sc) |-> sc[i].name]

\* date_mapping has been computed by the first call
Inferred ==
    call = 1 /\ NonEmptyInput /\ pc \in {"status", "calc", "done", "raised"}

\* the roles in their fixed order, with their keywords
RoleKeywords ==
    << {<<"s","t","a","r","t">>, <<"s","t","a","r","t","d","a","t","e">>, <<"s","t","a","r","t","_","d","a","t","e">>, <<"b","e","g","i","n">>, <<"b","e","g","i","n","d","a","t","e">>},
       {<<"c","u","s","t","o","m","e","r","r","e","q","u","e","s","t">>, <<"c","u","s","t","o","m","e","r","_","r","e","q","u","e","s","t">>, <<"e","n","d">>, <<"e","n","d","d","a","t","e">>,
        <<"e","n","d","_","d","a","t","e">>, <<"f","i","n","i","s","h">>, <<"f","i","n","i","s","h","d","a","t","e">>},
       {<<"s","h","i","p">>, <<"s","h","i","p","d","a","t","e">>, <<"s","h","i","p","_","d","a","t","e">>, <<"s","h","i","p","p","i","n","g">>},
       {<<"d","u","e">>, <<"d","u","e","d","a","t","e">>, <<"d","u","e","_","d","a","t","e">>, <<"d","e","a","d","l","i","n","e">>} >>

\* the first role one of whose keywords is a substring of the header,
\* lowercased and without spaces and '#'; 0 when there is none
FirstRole(h) ==
    LET key  == SelectSeq(Lower(h), LAMBDA c : c \notin {" ", "#"})
        hits == {p \in 1..4 : \E kw \in RoleKeywords[p] : Contains(kw, key)}
    IN  IF hits = {} THEN 0 ELSE SetMin(hits)

\* C17: infer_date_columns assigns a header to the first role, in the order
\* StartDate, CustomerRequestDate, ShipDate, DueDate, one of whose keywords
\* is a substring of the normalized header, and to no other role: every
\* entry of date_mapping holds a header under its first role, no header is
\* held under two roles, and the last header of each role is held under it.
C17_FirstMatchingRole ==
    Inferred
        => LET seen  == <<>> \o Seen
               roles == <<>> \o [i \in 1..Len(seen) |-> FirstRole(seen[i])]
           IN  /\ \A p \in DOMAIN date_mapping :
                     /\ \E i \in 1..Len(seen) :
                           seen[i] = date_mapping[p] /\ roles[i] = p
                     /\ FirstRole(date_mapping[p]) = p
               /\ \A p, q \in DOMAIN date_mapping :
                     date_mapping[p] = date_mapping[q] => p = q
               /\ \A i \in 1..Len(seen) :
                     ( /\ roles[i] # 0
                       /\ \A j \in (i + 1)..Len(seen) : roles[j] # roles[i] )
                        => /\ roles[i] \in DOMAIN date_mapping
                           /\ date_mapping[roles[i]] = seen[i]

\* C17 witness: the header "Ship Deadline", which has a keyword of ShipDate
\* and one of DueDate, was assigned to ShipDate and not to DueDate.
C17_Witness ==
    /\ Inferred
    /\ 3 \in DOMAIN date_mapping
    /\ date_mapping[3] = H_ShipDeadline
    /\ 4 \notin DOMAIN date_mapping

\* the order of the roles: StartDate, CustomerRequestDate, ShipDate, DueDate
RoleNames == <<N_StartDate, N_CustomerRequestDate, N_ShipDate, N_DueDate>>

\* the raw columns whose header maps to the canonical name F, in the alias
\* pass or, with the name that pass gave it, in the date-role pass
MapsTo(F) ==
    {j \in 1..Len(input.cols) :
        LET a == AliasName(input.cols[j].name)
        IN  \/ a = F
            \/ FirstRole(a) # 0 /\ RoleNames[FirstRole(a)] = F}

\* C18 (as claimed): when two or more raw headers map to one canonical
\* name, the returned schedule has a single column of that name, and it is
\* the column of the last of those headers.
C18_LastWriteWins ==
    (call = 1 /\ Done /\ NonEmptyInput)
        => \A F \in CanonicalFields :
              Cardinality(MapsTo(F)) >= 2
                 => /\ Cardinality(Positions(df, F)) = 1
                    /\ TheCol(df, F).src = SetMax(MapsTo(F))

\* a date value as it may go to the worksheet: a YYYY-MM-DD text, or no
\* value at all
DateTextOrMissing(c) ==
    \/ c.k = "str" /\ (c.s = <<>> \/ IsDateText(c.s))
    \/ c.k \in {"null", "nat"}

\* C16 (as claimed): the table passed to write_to_google_sheets, by Save
\* Changes and by Add Job, holds every value of StartDate,
\* CustomerRequestDate, ShipDate and DueDate as a YYYY-MM-DD text (or holds
\* no value), never as a timestamp.
C16_WritesDateStrings ==
    wpc # "idle"
        => \A i \in 1..Len(written.cols) :
              written.cols[i].name \in Range(date_cols)
                 => \A r \in 1..written.n :
                       DateTextOrMissing(written.cols[i].cells[r])

\* every cell of the table holds a value
NoneMissing(t) ==
    \A i \in 1..Len(t.cols) : \A r \in 1..t.n : t.cols[i].cells[r].k # "null"

\* the job numbers of a table
Jobs(t) == {TheCol(t, N_JobID).cells[r] : r \in 1..t.n}

\* C19 (as claimed): after a successful Save Changes the worksheet holds
\* every job of the schedule the page was showing, those the filters hid
\* included (the user deletes no row here; the written table has a value
\* in every cell).
C19_SaveKeepsHiddenJobs ==
    (caller = "save" /\ wpc = "ok" /\ NoneMissing(written))
        => /\ N_JobID \in Names(sheet)
           /\ Jobs(df) \subseteq Jobs(sheet)

\* C20 (as claimed): when write_to_google_sheets has raised, the worksheet
\* holds what it held when the function was called.
C20_FailedWriteLeavesSheet ==
    wpc = "failed" => sheet = before

\* C21: across Save Changes, Discard, Add Job, Refresh and switching the
\* connection type, write_to_google_sheets is invoked only while the active
\* configuration has source_type 'service_account', the configuration stays
\* that for as long as the call runs, and the worksheet changes in no step
\* taken with another source_type: in 'public_csv' mode nothing is written.
C21_WritesOnlyWithServiceAccount ==
    [][ /\ (wpc' = "connect" /\ wpc # "connect")
              => source_type = "service_account"
        /\ WriteRunning' => source_type' = "service_account"
        /\ sheet' # sheet => source_type = "service_account" ]_vars

\* C21 witness: the page is drawn in 'public_csv' mode over a worksheet that
\* an earlier Save Changes, made in 'service_account' mode, wrote the edited
\* Status Hold to.
C21_Witness ==
    /\ source_type = "public_csv"
    /\ Rendered
    /\ N_Status \in Names(sheet)
    /\ sheet.n >= 1
    /\ TheCol(sheet, N_Status).cells[1] = Str(<<"H","o","l","d">>)

====
